---- MODULE Spec2Model ----
(***************************************************************************)
(* Model of src/main.py: staking report for one contract on ETH and BSC.   *)
(*                                                                         *)
(* Data abstractions used throughout:                                      *)
(*  - a list of transactions is kept run-length encoded: a run             *)
(*    [blockNumber, from, n] stands for n consecutive transactions of one  *)
(*    block and one sender.  The code reads only len(txs), txs[-1], the    *)
(*    'from' of every element and list concatenation, all of which are     *)
(*    computed exactly on runs, so the page size keeps its value 10000.    *)
(*  - a DataFrame is the sequence of its rows (records); the empty         *)
(*    DataFrame (no rows, no columns) is <<>>.                             *)
(*  - a float amount raw / 10^9 is the pair [whole, frac] of its integer   *)
(*    part and its nine decimal digits; float rounding is not modelled.    *)
(***************************************************************************)
EXTENDS Integers, Sequences, FiniteSets, TLC

\* ------------------------------------------------------------ constants

\* DECIMALS = 10**9
DECIMALS == 1000000000

\* startblock = 34181130
START_BLOCK == 34181130

\* if len(txs) < 10000
PAGE_SIZE == 10000

\* seconds per day, used by the epoch-seconds to calendar-time conversion
SECONDS_PER_DAY == 86400

\* ------------------------------------------------------------ bounds

\* runs in a transaction history, when the history scan is checked alone
MaxRuns == 3

\* runs in a transaction history, in a whole run of main
MainMaxRuns == 2

\* Staked events on the ETH chain
MaxEvents == 2

\* stake entries one address can hold
MaxStakes == 2

\* length of a run that is shorter than a page
ShortRun == 3

\* ------------------------------------------------------------ addresses

\* Sender strings as the BscScan endpoint may report them: any casing.
RawAddresses == {"0xab", "0xAb", "0xcd"}

\* The canonical (EIP-55) forms, as web3 returns and requires them.
ChecksumAddresses == {"0xAb", "0xCd"}

\* the account behind an address string, whatever its casing
AccountOf(addr) == IF addr \in {"0xab", "0xAb"} THEN "ab" ELSE "cd"

\* (a main that passes the senders on as the endpoint spelled them)
to_checksum_address_identity(addr) == addr

\* web3.to_checksum_address: the canonical casing of the account.
to_checksum_address(addr) ==
    IF addr \in {"0xab", "0xAb"} THEN "0xAb" ELSE "0xCd"

\* ------------------------------------------------------------ chain data

\* (raw amount, expiration timestamp) tuples of the i-th stake of an account
StakeEntry(i) == << i * 700000000, 1700000000 + (i - 1) * 43200 >>

RECURSIVE SeqsUpTo(_, _)
SeqsUpTo(S, k) ==
    IF k = 0 THEN { <<>> }
    ELSE LET shorter == SeqsUpTo(S, k - 1)
         IN  shorter \cup { Append(s, x) : s \in shorter, x \in S }

\* The lists a getUserStakes call can return: 0..MaxStakes entries.
StakeLists == { [ i \in 1..k |-> StakeEntry(i) ] : k \in 0..MaxStakes }

\* A Python value that is either a list or None.
None == [is_list |-> FALSE, value |-> <<>>]
List(l) == [is_list |-> TRUE, value |-> l]

\* Outcome of an external call: it raised, or it returned `value`.
Raised == [raised |-> TRUE, value |-> <<>>]
Returned(v) == [raised |-> FALSE, value |-> v]

\* contract.functions.getUserStakes(address).call(): web3 raises InvalidAddress
\* for an address that is not in checksum form; otherwise the node answers
\* with a list or the call fails (revert, network).
ContractCallOutcomes(address) ==
    IF address \in ChecksumAddresses
    THEN {Raised} \cup { Returned(l) : l \in StakeLists }
    ELSE {Raised}

Runs(blocks, lengths) == [blockNumber : blocks, from : RawAddresses, n : lengths]

\* Histories in ascending block order.
RECURSIVE Histories(_, _, _)
Histories(maxRuns, blocks, lengths) ==
    IF maxRuns = 0 THEN { <<>> }
    ELSE LET shorter == Histories(maxRuns - 1, blocks, lengths)
             Fits(h, r) == h = <<>> \/ h[Len(h)].blockNumber <= r.blockNumber
         IN  shorter \cup
             UNION { { Append(h, r) : r \in { q \in Runs(blocks, lengths) : Fits(h, q) } } :
                     h \in shorter }

\* The `user` fields of the Staked events a filter query can return, listed
\* by account: the code reads them through a set comprehension only.
EventLists ==
    { e \in SeqsUpTo(ChecksumAddresses, MaxEvents) :
        \A i \in 1..(Len(e) - 1) : e[i] = "0xAb" \/ e[i + 1] = "0xCd" }

ScanBlocks == (START_BLOCK - 1)..(START_BLOCK + 1)
ScanLengths == {ShortRun, PAGE_SIZE}

\* Histories of a whole run of main: the i-th run is alone in its block, and
\* only the first run can fill a page (scans of one or two requests).
MainLengths == {ShortRun, PAGE_SIZE}
MainHistories ==
    { h \in SeqsUpTo(Runs(START_BLOCK..(START_BLOCK + MainMaxRuns - 1), MainLengths),
                     MainMaxRuns) :
        \A i \in 1..Len(h) :
            /\ h[i].blockNumber = START_BLOCK + i - 1
            /\ h[i].n = PAGE_SIZE => i = 1 }

\* ------------------------------------------------------------ state

VARIABLES
    pc,                    \* position in main / in the function it is running
    history,               \* BSC: the contract's transactions, ascending (environment)
    eth_reply,             \* ETH: outcome of the Staked filter query (environment, log)
    stakers_eth,           \* main: stakers_eth
    df_eth,                \* main: df_eth
    startblock,            \* fetch_staked_addresses_bsc: startblock
    all_transactions,      \* fetch_staked_addresses_bsc: all_transactions
    stakers_bsc,           \* main: stakers_bsc
    stakers_bsc_checksum,  \* main: stakers_bsc_checksum
    df_bsc,                \* main: df_bsc
    todo,                  \* build_staking_dataframe: addresses the for loop has not visited
    data,                  \* build_staking_dataframe: data
    calls,                 \* log of get_user_stakes calls: per chain and address, the results
    requests,              \* log of page requests: the startblock of each
    responses,             \* log of page responses: outcome of each request
    sleeps,                \* number of time.sleep(1) calls
    csv                    \* log of writes to staking_data_combined.csv

vars == << pc, history, eth_reply, stakers_eth, df_eth, startblock, all_transactions,
           stakers_bsc, stakers_bsc_checksum, df_bsc, todo, data, calls,
           requests, responses, sleeps, csv >>

\* ------------------------------------------------------------ helpers

Range(s) == { s[i] : i \in 1..Len(s) }

\* len(txs) on a run-length encoded list
RECURSIVE TxCount(_)
TxCount(txs) == IF txs = <<>> THEN 0 ELSE Head(txs).n + TxCount(Tail(txs))

\* the first k transactions of a run-length encoded list
RECURSIVE TakeTx(_, _)
TakeTx(txs, k) ==
    IF k = 0 \/ txs = <<>> THEN <<>>
    ELSE LET r == Head(txs)
         IN  IF r.n <= k THEN <<r>> \o TakeTx(Tail(txs), k - r.n)
             ELSE << [r EXCEPT !.n = k] >>

\* {tx['from'] for tx in txs}
Senders(txs) == { txs[i].from : i \in 1..Len(txs) }

\* The txlist endpoint (startblock=..., sort=asc): the transactions of the
\* contract at or after `start`, ascending, cut to the page size.
txlist(start) ==
    TakeTx(SelectSeq(history, LAMBDA r : r.blockNumber >= start), PAGE_SIZE)

\* (a get_user_stakes without its try/except)
get_user_stakes_uncaught(outcome) ==
    IF outcome.raised THEN [raised |-> TRUE, value |-> None]
    ELSE Returned(List(outcome.value))

\* get_user_stakes: the call's result, or None when the call raised; the
\* function itself never raises.
get_user_stakes(outcome) ==
    IF outcome.raised THEN Returned(None) ELSE Returned(List(outcome.value))

\* Python truthiness of `stakes`: None and [] are false.
Truthy(stakes) == stakes.is_list /\ stakes.value /= <<>>

\* stake[0] / DECIMALS
ScaleAmount(raw) == [whole |-> raw \div DECIMALS, frac |-> raw % DECIMALS]

AddAmount(a, b) ==
    LET f == a.frac + b.frac
    IN  [whole |-> a.whole + b.whole + (f \div DECIMALS), frac |-> f % DECIMALS]

ZeroAmount == [whole |-> 0, frac |-> 0]

\* pd.to_datetime(seconds, unit='s')
to_datetime(s) == [days |-> s \div SECONDS_PER_DAY, secs |-> s % SECONDS_PER_DAY]

\* the rows appended for one address: lines 143-149
RowsFor(address, stakes) ==
    IF Truthy(stakes)
    THEN [ i \in 1..Len(stakes.value) |->
             [ address |-> address,
               staking_amount |-> ScaleAmount(stakes.value[i][1]),
               expiration_date |-> stakes.value[i][2] ] ]
    ELSE <<>>

\* (totals summed over the whole table: the groupby key is lost)
RECURSIVE GroupSum_whole_table(_, _)
GroupSum_whole_table(rows, a) ==
    IF rows = <<>> THEN ZeroAmount
    ELSE AddAmount(Head(rows).staking_amount, GroupSum_whole_table(Tail(rows), a))

\* sum of staking_amount over the rows of `rows` whose address is a
RECURSIVE GroupSum(_, _)
GroupSum(rows, a) ==
    IF rows = <<>> THEN ZeroAmount
    ELSE LET rest == GroupSum(Tail(rows), a)
         IN  IF Head(rows).address = a
             THEN AddAmount(Head(rows).staking_amount, rest)
             ELSE rest

\* lines 151-160: DataFrame(data), the empty case, the conversions, the
\* per-address totals and their merge back onto the rows
BuildFrame(rows, chain_name) ==
    IF rows = <<>> THEN <<>>
    ELSE [ i \in 1..Len(rows) |->
             [ address |-> rows[i].address,
               staking_amount |-> rows[i].staking_amount,
               expiration_date |-> to_datetime(rows[i].expiration_date),
               chain |-> chain_name,
               total_staked_amount |-> GroupSum(rows, rows[i].address) ] ]

\* (the frames concatenated in the other order)
concat_swapped(a, b) == b \o a

\* pd.concat([df_eth, df_bsc], ignore_index=True)
concat(a, b) == a \o b

\* (a fetch_staked_addresses_eth without its try/except)
fetch_staked_addresses_eth_uncaught(reply) ==
    IF reply.raised THEN [raised |-> TRUE, value |-> {}]
    ELSE Returned(Range(reply.value))

\* fetch_staked_addresses_eth: the set of `user` fields, or set() on failure;
\* the function itself never raises.
fetch_staked_addresses_eth(reply) ==
    IF reply.raised THEN Returned({}) ELSE Returned(Range(reply.value))

\* (a cursor that restarts at the last block seen)
NextStartBlock_same_block(txs) == txs[Len(txs)].blockNumber

\* line 120: startblock = int(txs[-1]['blockNumber']) + 1
NextStartBlock(txs) == txs[Len(txs)].blockNumber + 1

\* (a loop that also stops on a full page: <= for <)
AfterPage_stops_on_full(txs) ==
    IF txs = <<>> THEN "bsc_return"
    ELSE IF TxCount(txs) <= PAGE_SIZE THEN "bsc_return"
    ELSE "bsc_sleep"

\* (a loop without the short-page break: it sleeps after every non-empty page)
AfterPage_no_short_break(txs) ==
    IF txs = <<>> THEN "bsc_return" ELSE "bsc_sleep"

\* lines 116-123: where the loop goes after a page
AfterPage(txs) ==
    IF txs = <<>> THEN "bsc_return"
    ELSE IF TxCount(txs) < PAGE_SIZE THEN "bsc_return"
    ELSE "bsc_sleep"

\* (a failed request handled as the ETH path handles its own: the loop ends)
AfterFailedRequest_swallowed == "bsc_return"

\* lines 113-114: a request that raises is not caught anywhere up to main
AfterFailedRequest == "raised"

Chains == {"ETH", "BSC"}

ChainOf(p) == IF p = "eth_build" THEN "ETH" ELSE "BSC"

\* ------------------------------------------------------------ initial states

InitLocals ==
    /\ eth_reply = Returned(<<>>)
    /\ stakers_eth = {}
    /\ df_eth = <<>>
    /\ startblock = 0
    /\ all_transactions = <<>>
    /\ stakers_bsc = {}
    /\ stakers_bsc_checksum = {}
    /\ df_bsc = <<>>
    /\ todo = {}
    /\ data = <<>>
    /\ calls = [ c \in Chains, a \in RawAddresses \cup ChecksumAddresses |-> <<>> ]
    /\ requests = <<>>
    /\ responses = <<>>
    /\ sleeps = 0
    /\ csv = <<>>

\* main is about to run
Init ==
    /\ pc = "eth_fetch"
    /\ history \in MainHistories
    /\ InitLocals

\* fetch_staked_addresses_bsc is about to run, on its own
InitScan ==
    /\ pc = "bsc_call"
    /\ history \in Histories(MaxRuns, ScanBlocks, ScanLengths)
    /\ InitLocals

\* ------------------------------------------------------------ actions

\* main line 175 and fetch_staked_addresses_eth (lines 87-93); line 176 enters
\* build_staking_dataframe (line 140); main has no handler of its own
EthFetch ==
    /\ pc = "eth_fetch"
    /\ \E reply \in {Raised} \cup { Returned(e) : e \in EventLists } :
         LET result == fetch_staked_addresses_eth(reply)
         IN  /\ eth_reply' = reply
             /\ IF result.raised
                THEN /\ pc' = "raised"
                     /\ UNCHANGED << stakers_eth, todo >>
                ELSE /\ stakers_eth' = result.value
                     /\ todo' = result.value
                     /\ pc' = "eth_build"
    /\ data' = <<>>
    /\ UNCHANGED << history, df_eth, startblock, all_transactions, stakers_bsc,
                    stakers_bsc_checksum, df_bsc, calls, requests, responses, sleeps, csv >>

\* build_staking_dataframe lines 141-149: one iteration of the for loop,
\* the set yielding its addresses in any order; the loop has no handler of
\* its own, so a get_user_stakes that raised would end main
BuildStep ==
    /\ pc \in {"eth_build", "bsc_build"}
    /\ \E address \in todo :
         \E outcome \in ContractCallOutcomes(address) :
           LET result == get_user_stakes(outcome)
               stakes == result.value
           IN  /\ calls' = [calls EXCEPT ![ChainOf(pc), address] = Append(@, stakes)]
               /\ IF result.raised
                  THEN /\ pc' = "raised"
                       /\ UNCHANGED << data, todo >>
                  ELSE /\ data' = data \o RowsFor(address, stakes)
                       /\ todo' = todo \ {address}
                       /\ UNCHANGED pc
    /\ UNCHANGED << history, eth_reply, stakers_eth, df_eth, startblock,
                    all_transactions, stakers_bsc, stakers_bsc_checksum, df_bsc,
                    requests, responses, sleeps, csv >>

\* build_staking_dataframe lines 151-160 after the loop, and main's
\* assignment of the result (lines 176, 182)
BuildReturn ==
    /\ pc \in {"eth_build", "bsc_build"}
    /\ todo = {}
    /\ IF pc = "eth_build"
       THEN /\ df_eth' = BuildFrame(data, "ETH")
            /\ pc' = "bsc_call"
            /\ UNCHANGED df_bsc
       ELSE /\ df_bsc' = BuildFrame(data, "BSC")
            /\ pc' = "concat"
            /\ UNCHANGED df_eth
    /\ UNCHANGED << history, eth_reply, stakers_eth, startblock, all_transactions,
                    stakers_bsc, stakers_bsc_checksum, todo, data, calls,
                    requests, responses, sleeps, csv >>

\* fetch_staked_addresses_bsc lines 108-109
BscCall ==
    /\ pc = "bsc_call"
    /\ startblock' = START_BLOCK
    /\ all_transactions' = <<>>
    /\ pc' = "bsc_request"
    /\ UNCHANGED << history, eth_reply, stakers_eth, df_eth, stakers_bsc,
                    stakers_bsc_checksum, df_bsc, todo, data, calls,
                    requests, responses, sleeps, csv >>

\* lines 111-122: one page request; it raises, or the page is handled
BscRequest ==
    /\ pc = "bsc_request"
    /\ requests' = Append(requests, startblock)
    /\ \/ /\ responses' = Append(responses, Raised)
          /\ pc' = AfterFailedRequest
          /\ UNCHANGED << startblock, all_transactions >>
       \/ LET txs == txlist(startblock)
          IN  /\ responses' = Append(responses, Returned(txs))
              /\ pc' = AfterPage(txs)
              /\ IF txs = <<>>
                 THEN UNCHANGED << startblock, all_transactions >>
                 ELSE /\ all_transactions' = all_transactions \o txs
                      /\ startblock' = NextStartBlock(txs)
    /\ UNCHANGED << history, eth_reply, stakers_eth, df_eth, stakers_bsc,
                    stakers_bsc_checksum, df_bsc, todo, data, calls, sleeps, csv >>

\* line 123: time.sleep(1), then the next iteration
BscSleep ==
    /\ pc = "bsc_sleep"
    /\ sleeps' = sleeps + 1
    /\ pc' = "bsc_request"
    /\ UNCHANGED << history, eth_reply, stakers_eth, df_eth, startblock, all_transactions,
                    stakers_bsc, stakers_bsc_checksum, df_bsc, todo, data, calls,
                    requests, responses, csv >>

\* line 125 and main's assignment on line 180
BscReturn ==
    /\ pc = "bsc_return"
    /\ stakers_bsc' = Senders(all_transactions)
    /\ pc' = "normalize"
    /\ UNCHANGED << history, eth_reply, stakers_eth, df_eth, startblock, all_transactions,
                    stakers_bsc_checksum, df_bsc, todo, data, calls,
                    requests, responses, sleeps, csv >>

\* main line 181; line 182 enters build_staking_dataframe (line 140)
Normalize ==
    /\ pc = "normalize"
    /\ stakers_bsc_checksum' = { to_checksum_address(addr) : addr \in stakers_bsc }
    /\ todo' = { to_checksum_address(addr) : addr \in stakers_bsc }
    /\ data' = <<>>
    /\ pc' = "bsc_build"
    /\ UNCHANGED << history, eth_reply, stakers_eth, df_eth, startblock, all_transactions,
                    stakers_bsc, df_bsc, calls, requests, responses, sleeps, csv >>

\* main lines 185-186
WriteReport ==
    /\ pc = "concat"
    /\ csv' = Append(csv, concat(df_eth, df_bsc))
    /\ pc' = "done"
    /\ UNCHANGED << history, eth_reply, stakers_eth, df_eth, startblock, all_transactions,
                    stakers_bsc, stakers_bsc_checksum, df_bsc, todo, data, calls,
                    requests, responses, sleeps >>

Next ==
    \/ EthFetch
    \/ BuildStep
    \/ BuildReturn
    \/ BscCall
    \/ BscRequest
    \/ BscSleep
    \/ BscReturn
    \/ Normalize
    \/ WriteReport

NextScan ==
    \/ BscCall
    \/ BscRequest
    \/ BscSleep
    \/ BscReturn

\* a run of main
Spec == Init /\ [][Next]_vars

\* a call of fetch_staked_addresses_bsc
SpecScan == InitScan /\ [][NextScan]_vars

\* the interpreter keeps executing: a step that can be taken is taken
FairSpecScan == InitScan /\ [][NextScan]_vars /\ WF_vars(NextScan)

\* ------------------------------------------------------------ the history scan

\* number of transactions in the i-th page; a failed request delivered none
PageCount(i) == TxCount(responses[i].value)

FullPage(i) == ~responses[i].raised /\ PageCount(i) = PAGE_SIZE

\* an empty page or a page shorter than the page size
TerminalPage(i) == ~responses[i].raised /\ PageCount(i) < PAGE_SIZE

ScanReturned == pc \in {"bsc_return", "normalize"}

\* C2: when fetch_staked_addresses_bsc returns, its result is exactly the set
\* of senders of the transactions of the history at or after the starting
\* block, whatever the history (blocks shared by several transactions and
\* cut by a page boundary included).
C2_AllSendersReturned ==
    pc = "normalize" =>
        stakers_bsc = { history[i].from :
                          i \in { j \in 1..Len(history) : history[j].blockNumber >= START_BLOCK } }

\* C3: requests follow one another while pages are full and stop at the first
\* empty or short page; the first request starts at the starting block and
\* each later one at the previous page's last block number plus 1; the result
\* is the union of the senders of all pages (so a page of 10000 followed by a
\* page of 3 gives 2 requests and both pages' senders).
C3_PagingProtocol ==
    /\ Len(responses) = Len(requests)
    /\ requests /= <<>> => requests[1] = START_BLOCK
    /\ \A i \in 2..Len(requests) :
          /\ FullPage(i - 1)
          /\ requests[i] =
               responses[i - 1].value[Len(responses[i - 1].value)].blockNumber + 1
    /\ (pc \in {"bsc_sleep", "bsc_request"} /\ requests /= <<>>) => FullPage(Len(requests))
    /\ ScanReturned => (requests /= <<>> /\ TerminalPage(Len(requests)))
    /\ pc = "normalize" =>
          stakers_bsc = UNION { Senders(responses[i].value) : i \in 1..Len(responses) }

\* a full page followed by a page of ShortRun (3) transactions, and the scan returned
C3_Witness ==
    /\ pc = "normalize"
    /\ Len(requests) = 2
    /\ PageCount(1) = PAGE_SIZE
    /\ PageCount(2) = ShortRun
    /\ Senders(responses[2].value) \ Senders(responses[1].value) /= {}
    /\ stakers_bsc = Senders(responses[1].value) \cup Senders(responses[2].value)

FullPages == Cardinality({ i \in 1..Len(responses) : FullPage(i) })

\* C9: one sleep follows every full page and precedes the next request; no
\* sleep follows an empty or short page; a scan of n requests that has ended
\* has slept n - 1 times.
C9_SleepsBetweenRequests ==
    /\ pc = "bsc_sleep" => (sleeps = FullPages - 1 /\ sleeps = Len(requests) - 1)
    /\ pc = "bsc_request" => (sleeps = FullPages /\ sleeps = Len(requests))
    /\ (ScanReturned \/ pc = "raised") =>
          (sleeps = FullPages /\ sleeps = Len(requests) - 1)

\* a scan of three requests has returned after two sleeps
C9_Witness ==
    /\ pc = "normalize"
    /\ Len(requests) = 3
    /\ sleeps = 2

\* C10: the start block of each request is greater than that of the request
\* before it, the cursor kept for the next request is greater than the last
\* one requested, and the scan ends.
RequestsIncrease ==
    /\ \A i \in 1..(Len(requests) - 1) : requests[i] < requests[i + 1]
    /\ (pc \in {"bsc_sleep", "bsc_request"} /\ requests /= <<>>) =>
          startblock > requests[Len(requests)]

C10_CursorIncreasesAndScanEnds ==
    /\ []RequestsIncrease
    /\ <>(pc \in {"normalize", "raised"})

\* a scan that answered every request and returned after three of them
C10_Witness ==
    /\ pc = "normalize"
    /\ Len(requests) = 3
    /\ \A i \in 1..3 : ~responses[i].raised
    /\ requests[1] < requests[2] /\ requests[2] < requests[3]

\* ------------------------------------------------------------ the tables

AllAddresses == RawAddresses \cup ChecksumAddresses

\* main is past line 176 (df_eth is assigned)
EthBuilt == pc \notin {"eth_fetch", "eth_build"} /\ (pc = "raised" => requests /= <<>>)

\* main is past line 182 (df_bsc is assigned)
BscBuilt == pc \in {"concat", "done"}

RowsOfAddress(df, a) == SelectSeq(df, LAMBDA r : r.address = a)

\* number of entries a get_user_stakes result holds; None holds none
Entries(stakes) == IF stakes.is_list THEN Len(stakes.value) ELSE 0

\* df holds, for every address of addrs, one row per entry its single
\* get_user_stakes call returned, in the call's order and with the entry's
\* values, and no row for any other address
TableMatchesCalls(df, chain, addrs) ==
    \A a \in AllAddresses :
        IF a \in addrs
        THEN /\ Len(calls[chain, a]) = 1
             /\ LET stakes == calls[chain, a][1]
                    rows == RowsOfAddress(df, a)
                IN  /\ Len(rows) = Entries(stakes)
                    /\ \A i \in 1..Len(rows) :
                          /\ rows[i].staking_amount = ScaleAmount(stakes.value[i][1])
                          /\ rows[i].expiration_date = to_datetime(stakes.value[i][2])
                          /\ rows[i].chain = chain
        ELSE /\ calls[chain, a] = <<>>
             /\ RowsOfAddress(df, a) = <<>>

\* the only way main ends early is a history-scan request that raised
OnlyScanFailureAborts ==
    pc = "raised" => (responses /= <<>> /\ responses[Len(responses)].raised)

\* C1: each table has exactly k rows for an address whose fetch returned k
\* entries and none for an address whose fetch returned [] or failed; a
\* failed fetch does not end the build, and the rows of the other addresses
\* are those their own fetches returned.
C1_RowsPerAddress ==
    /\ EthBuilt => TableMatchesCalls(df_eth, "ETH", stakers_eth)
    /\ BscBuilt => TableMatchesCalls(df_bsc, "BSC", stakers_bsc_checksum)
    /\ OnlyScanFailureAborts

\* a table built from one address whose fetch failed, and one with two entries
C1_Witness ==
    /\ pc = "done"
    /\ calls["BSC", "0xAb"] = << None >>
    /\ Len(calls["BSC", "0xCd"]) = 1
    /\ Entries(calls["BSC", "0xCd"][1]) = 2
    /\ Len(df_bsc) = 2
    /\ calls["ETH", "0xAb"] = << List(<<>>) >>
    /\ df_eth = <<>>

\* sum of staking_amount over the rows of `rows` with address a and chain c
RECURSIVE SumOfRows(_, _, _)
SumOfRows(rows, a, c) ==
    IF rows = <<>> THEN ZeroAmount
    ELSE IF Head(rows).address = a /\ Head(rows).chain = c
         THEN AddAmount(SumOfRows(Tail(rows), a, c), Head(rows).staking_amount)
         ELSE SumOfRows(Tail(rows), a, c)

\* C4: in the written report, each row's total_staked_amount is the sum of
\* staking_amount over the rows of the same address and the same chain.
C4_TotalsPerAddressAndChain ==
    csv /= <<>> =>
        \A i \in 1..Len(csv[1]) :
            csv[1][i].total_staked_amount =
                SumOfRows(csv[1], csv[1][i].address, csv[1][i].chain)

\* 0xAb has two stakes on ETH and one on BSC, 0xCd has stakes on BSC too
C4_Witness ==
    /\ csv /= <<>>
    /\ \E i, j, k \in 1..Len(csv[1]) :
          /\ csv[1][i].address = "0xAb" /\ csv[1][i].chain = "ETH"
          /\ csv[1][j].address = "0xAb" /\ csv[1][j].chain = "BSC"
          /\ csv[1][k].address = "0xCd" /\ csv[1][k].chain = "BSC"
          /\ csv[1][i].total_staked_amount = [whole |-> 2, frac |-> 100000000]
          /\ csv[1][j].total_staked_amount = [whole |-> 0, frac |-> 700000000]

\* number of BSC get_user_stakes calls made for the account acct
CallsOfAccount(acct) ==
    Cardinality(UNION { {a} \X (1..Len(calls["BSC", a])) :
                        a \in { x \in AllAddresses : AccountOf(x) = acct } })

\* sum of the scaled amounts of a list of stake entries
RECURSIVE SumOfEntries(_)
SumOfEntries(entries) ==
    IF entries = <<>> THEN ZeroAmount
    ELSE AddAmount(ScaleAmount(Head(entries)[1]), SumOfEntries(Tail(entries)))

\* C5: on BSC, get_user_stakes is called with checksum addresses only and
\* at most once per account; the account's entries are in the BSC table
\* once, and its total is the sum of those entries.
C5_OneChecksumCallPerAccount ==
    /\ \A a \in AllAddresses \ ChecksumAddresses : calls["BSC", a] = <<>>
    /\ \A acct \in { AccountOf(a) : a \in AllAddresses } :
          CallsOfAccount(acct) <= 1
    /\ BscBuilt =>
          \A acct \in { AccountOf(a) : a \in stakers_bsc } :
              /\ CallsOfAccount(acct) = 1
              /\ \E a \in ChecksumAddresses :
                    /\ AccountOf(a) = acct
                    /\ Len(calls["BSC", a]) = 1
                    /\ Len(RowsOfAddress(df_bsc, a)) = Entries(calls["BSC", a][1])
                    /\ \A i \in 1..Len(df_bsc) :
                          AccountOf(df_bsc[i].address) = acct =>
                              /\ df_bsc[i].address = a
                              /\ df_bsc[i].total_staked_amount =
                                    SumOfEntries(calls["BSC", a][1].value)

\* the scan returned one account in two casings; it has two stakes
C5_Witness ==
    /\ pc = "done"
    /\ {"0xab", "0xAb"} \subseteq stakers_bsc
    /\ calls["BSC", "0xAb"] = << List(<< StakeEntry(1), StakeEntry(2) >>) >>
    /\ Len(df_bsc) = 2
    /\ df_bsc[1].total_staked_amount = [whole |-> 2, frac |-> 100000000]

\* C6: the written report is the rows of df_eth, in their order, followed by
\* the rows of df_bsc, in theirs, every ETH row labelled ETH and every BSC
\* row labelled BSC; with one table empty it is the other table's rows.
C6_ReportIsEthThenBsc ==
    csv /= <<>> =>
        /\ Len(csv[1]) = Len(df_eth) + Len(df_bsc)
        /\ \A i \in 1..Len(df_eth) : csv[1][i] = df_eth[i] /\ csv[1][i].chain = "ETH"
        /\ \A j \in 1..Len(df_bsc) :
              /\ csv[1][Len(df_eth) + j] = df_bsc[j]
              /\ csv[1][Len(df_eth) + j].chain = "BSC"
        /\ df_eth = <<>> => csv[1] = df_bsc
        /\ df_bsc = <<>> => csv[1] = df_eth

\* an empty BSC table and an ETH table of two addresses with three rows
C6_Witness ==
    /\ csv /= <<>>
    /\ df_bsc = <<>>
    /\ stakers_bsc /= {}
    /\ Len(df_eth) = 3
    /\ df_eth[1].address /= df_eth[3].address
    /\ csv[1] = df_eth

\* every address of both address sets has been fetched and no loop is running
BothTablesBuilt ==
    /\ todo = {}
    /\ \A a \in stakers_eth : Len(calls["ETH", a]) = 1
    /\ \A a \in stakers_bsc_checksum : Len(calls["BSC", a]) = 1
    /\ ScanReturned \/ requests /= <<>>

\* C7: the file is written at most once, and only when main is done with
\* both tables built; once a page request has raised, main has ended and
\* nothing is written (no file with the ETH rows only).
C7_WriteOnceAfterBothTables ==
    /\ Len(csv) <= 1
    /\ csv /= <<>> =>
          /\ pc = "done"
          /\ BothTablesBuilt
          /\ Len(csv[1]) = Len(df_eth) + Len(df_bsc)
    /\ pc = "done" => Len(csv) = 1
    /\ (\E i \in 1..Len(responses) : responses[i].raised) =>
          /\ pc = "raised"
          /\ csv = <<>>
          /\ ~ENABLED Next

\* the second page request raised after the ETH table was built with rows
C7_Witness ==
    /\ pc = "raised"
    /\ Len(requests) = 2
    /\ responses[2].raised
    /\ df_eth /= <<>>
    /\ csv = <<>>

\* C8: fetch_staked_addresses_eth returns the set of the events' user fields,
\* or the empty set when the query raised, and never ends main; after a
\* failed query main goes on with an empty ETH table through the BSC scan and
\* build, and a main that is done has written the report (the BSC rows).
C8_EthFailureDegradesToEmpty ==
    /\ pc /= "eth_fetch" =>
          stakers_eth = IF eth_reply.raised THEN {}
                        ELSE { eth_reply.value[i] : i \in 1..Len(eth_reply.value) }
    /\ OnlyScanFailureAborts
    /\ eth_reply.raised =>
          /\ df_eth = <<>>
          /\ calls["ETH", "0xAb"] = <<>> /\ calls["ETH", "0xCd"] = <<>>
          /\ pc \notin {"done", "raised"} => ENABLED Next
          /\ pc = "done" =>
                /\ requests /= <<>>
                /\ \A a \in stakers_bsc_checksum : Len(calls["BSC", a]) = 1
                /\ csv = << df_bsc >>

\* the ETH query raised and the report was written with the BSC rows
C8_Witness ==
    /\ eth_reply.raised
    /\ pc = "done"
    /\ Len(df_bsc) >= 2
    /\ csv = << df_bsc >>

====
